---- MODULE Spec2Model ----
(***************************************************************************)
(* PSCI front end (psci_cpu_on, psci_cpu_suspend, psci_cpu_off,            *)
(* psci_affinity_info) over the affinity-level state machine, and the      *)
(* per-cpu context store of the context management library.                *)
(*                                                                         *)
(* Every cpu is a process.  A front-end call that is rejected by its own   *)
(* checks is one step; a call that reaches an affinity-level walk is a     *)
(* sequence of steps of the calling cpu: collect the nodes, take the locks *)
(* from the highest level down to level 0, read the states, write the new  *)
(* states level by level, release the locks from level 0 upward, return.   *)
(***************************************************************************)
EXTENDS Integers, Naturals, Sequences, FiniteSets, TLC

(***************************************************************************)
(* Bounds of the model.                                                    *)
(***************************************************************************)
\* number of distinct non-secure entry points a caller may pass
MaxEntry == 2

(***************************************************************************)
(* Program constants.                                                      *)
(***************************************************************************)
MPIDR_AFFLVL0 == 0
\* highest affinity level the architecture describes
MPIDR_MAX_AFFLVL == 2
\* highest affinity level the platform implements (cpu, cluster)
PLATFORM_MAX_AFFLVL == 1
\* width of one affinity field of an mpidr
MPIDR_AFFLVL_SHIFT == 256
\* cpus a cluster can hold
PLATFORM_MAX_CPUS_PER_CLUSTER == 2
PLATFORM_CORE_COUNT == 4
SECURE == 0
NON_SECURE == 1
\* power_state fields: id [15:0], type [16], affinity level [25:24]
PSTATE_TYPE_SHIFT == 65536
PSTATE_AFF_LVL_SHIFT == 16777216
PSTATE_TYPE_STANDBY == 0
PSTATE_TYPE_POWERDOWN == 1

PSCI_E_SUCCESS == "SUCCESS"
PSCI_E_NOT_SUPPORTED == "NOT_SUPPORTED"
PSCI_E_INVALID_PARAMS == "INVALID_PARAMS"
PSCI_E_DENIED == "DENIED"
PSCI_E_ALREADY_ON == "ALREADY_ON"
PSCI_E_INTERN_FAIL == "INTERN_FAIL"

PSCI_STATE_ON == "ON"
PSCI_STATE_OFF == "OFF"
PSCI_STATE_ON_PENDING == "ON_PENDING"
PSCI_STATE_SUSPEND == "SUSPEND"
PSCI_STATE_ABSENT == "ABSENT"

NULL == 0

(***************************************************************************)
(* Topology map: two clusters; cluster 0 holds cpus 0x000 and 0x001,       *)
(* cluster 1 holds one entry, 0x100, whose hardware is absent.             *)
(***************************************************************************)
Cores == {0, 1}

psci_aff_map == {<<1, 0>>, <<1, 256>>, <<0, 0>>, <<0, 1>>, <<0, 256>>}

PSCI_AFF_PRESENT(node) == node # <<0, 256>>

\* identifiers a caller may pass: the present cpus, the absent entry, and an
\* identifier the map does not hold
TargetIds == {0, 1, 256, 2}

get_max_afflvl == PLATFORM_MAX_AFFLVL

\* the affinity fields of mpidr at levels >= lvl
mpidr_mask(mpidr, lvl) ==
    IF lvl = 0 THEN mpidr
    ELSE IF lvl = 1 THEN (mpidr \div MPIDR_AFFLVL_SHIFT) * MPIDR_AFFLVL_SHIFT
    ELSE (mpidr \div (MPIDR_AFFLVL_SHIFT * MPIDR_AFFLVL_SHIFT))
             * (MPIDR_AFFLVL_SHIFT * MPIDR_AFFLVL_SHIFT)

NoNode == <<>>

psci_get_aff_map_node(mpidr, aff_lvl) ==
    IF aff_lvl > get_max_afflvl THEN NoNode
    ELSE IF <<aff_lvl, mpidr_mask(mpidr, aff_lvl)>> \in psci_aff_map
         THEN <<aff_lvl, mpidr_mask(mpidr, aff_lvl)>>
         ELSE NoNode

psci_validate_mpidr(mpidr, level) ==
    LET node == psci_get_aff_map_node(mpidr, level)
    IN IF node # NoNode /\ PSCI_AFF_PRESENT(node)
       THEN PSCI_E_SUCCESS ELSE PSCI_E_INVALID_PARAMS

psci_get_aff_map_nodes(mpidr, start_afflvl, end_afflvl) ==
    IF \A l \in start_afflvl..end_afflvl : psci_get_aff_map_node(mpidr, l) # NoNode
    THEN PSCI_E_SUCCESS ELSE PSCI_E_INVALID_PARAMS

platform_get_core_pos(mpidr) ==
    (mpidr % MPIDR_AFFLVL_SHIFT)
        + (mpidr \div MPIDR_AFFLVL_SHIFT) * PLATFORM_MAX_CPUS_PER_CLUSTER

\* present nodes one level below node that agree with it on the higher fields
Children(node) ==
    {n \in psci_aff_map : /\ n[1] + 1 = node[1]
                          /\ mpidr_mask(n[2], node[1]) = node[2]
                          /\ PSCI_AFF_PRESENT(n)}

\* power_state descriptors
psci_make_pstate(id, type, afflvl) ==
    id + type * PSTATE_TYPE_SHIFT + afflvl * PSTATE_AFF_LVL_SHIFT
psci_get_pstate_type(power_state) == (power_state \div PSTATE_TYPE_SHIFT) % 2
psci_get_pstate_afflvl(power_state) == (power_state \div PSTATE_AFF_LVL_SHIFT) % 4

PowerStates == {psci_make_pstate(0, t, l) : t \in {0, 1}, l \in 0..3}
Entrypoints == {e * 4096 : e \in 1..MaxEntry}

VARIABLES
    aff_state,            \* state of every node of psci_aff_map
    lock,                 \* cpus inside each node's lock
    pc,                   \* position of each cpu
    frame,                \* the call each cpu is in
    cm_context_info,      \* context store: cpu index -> world -> snapshot ref
    cpu_context,          \* snapshots: ref -> saved registers
    cm_last_set           \* <<mpidr, world>> -> ref of the latest cm_set_context

vars == <<aff_state, lock, pc, frame, cm_context_info, cpu_context, cm_last_set>>


(***************************************************************************)
(* Context store.                                                          *)
(***************************************************************************)
\* the snapshot the PSCI service keeps for the non-secure world of a cpu index
psci_ns_context(idx) == idx + 1

\* the mpidrs and security states the context store is called with
CmIds == {0, 1, 256}
CmWorlds == {SECURE, NON_SECURE}

\* a snapshot nothing was written to
ZeroContext == [elr |-> 0, el3 |-> 0, el1 |-> 0, sp |-> 0]

CtxRefs == {psci_ns_context(i) : i \in 0..(PLATFORM_CORE_COUNT - 1)}

\* (faulty variant: the slot of the non-secure state is read for both states)
cm_get_context_one_world(info, mpidr, security_state) ==
    info[platform_get_core_pos(mpidr)][NON_SECURE]

cm_get_context(info, mpidr, security_state) ==
    info[platform_get_core_pos(mpidr)][security_state]

\* (faulty variant: the slot of cpu index 0 is written, whatever the mpidr)
cm_set_context_first_slot(info, mpidr, context, security_state) ==
    [info EXCEPT ![0][security_state] = context]

cm_set_context(info, mpidr, context, security_state) ==
    [info EXCEPT ![platform_get_core_pos(mpidr)][security_state] = context]

\* the snapshots after the calling cpu (mpidr) programs its exception return
cm_set_el3_eret_context(ctxs, info, mpidr, security_state, entrypoint) ==
    LET ctx == cm_get_context(info, mpidr, security_state)
    IN IF ctx = NULL THEN ctxs ELSE [ctxs EXCEPT ![ctx].elr = entrypoint]

\* (faulty variant: the entry point is not recorded)
psci_set_ns_entry_info_skipped(ctxs, info, target_cpu, entrypoint) == ctxs

\* the snapshots after a directing cpu records, in the non-secure snapshot of
\* target_cpu, the entry point target_cpu resumes at
psci_set_ns_entry_info(ctxs, info, target_cpu, entrypoint) ==
    LET ctx == cm_get_context(info, target_cpu, NON_SECURE)
    IN IF ctx = NULL THEN ctxs ELSE [ctxs EXCEPT ![ctx].elr = entrypoint]

(***************************************************************************)
(* Affinity-level state machine: helpers.                                  *)
(***************************************************************************)
psci_get_state(st, node) == st[node]

\* state of a node above level 0, from the states of its present children
psci_calculate_affinity_state(node, st) ==
    LET kids == {st[n] : n \in Children(node)}
    IN IF PSCI_STATE_ON \in kids THEN PSCI_STATE_ON
       ELSE IF PSCI_STATE_SUSPEND \in kids THEN PSCI_STATE_SUSPEND
       ELSE IF PSCI_STATE_ON_PENDING \in kids THEN PSCI_STATE_ON_PENDING
       ELSE PSCI_STATE_OFF

\* the states the nodes of mpidr at levels lvl..end_afflvl take when its cpu
\* node takes tgt_state; st is the map with the lower levels already changed
RECURSIVE psci_change_state(_, _, _, _, _)
psci_change_state(mpidr, lvl, end_afflvl, tgt_state, st) ==
    IF lvl > end_afflvl THEN <<>>
    ELSE LET node == psci_get_aff_map_node(mpidr, lvl)
             s == IF lvl = MPIDR_AFFLVL0 THEN tgt_state
                  ELSE psci_calculate_affinity_state(node, st)
         IN <<s>> \o psci_change_state(mpidr, lvl + 1, end_afflvl, tgt_state,
                                       [st EXCEPT ![node] = s])

\* the state a walk gives the cpu node it is about
psci_target_state(op) ==
    CASE op = "on" -> PSCI_STATE_ON_PENDING
      [] op = "off" -> PSCI_STATE_OFF
      [] op = "suspend" -> PSCI_STATE_SUSPEND
      [] OTHER -> PSCI_STATE_ON

\* (faulty variant: only the cpu node's lock is taken)
psci_top_lock_level_cpu_only(end_afflvl) == MPIDR_AFFLVL0

\* the highest level whose lock a walk to end_afflvl takes
psci_top_lock_level(end_afflvl) == end_afflvl

\* (faulty variant: power_on takes its locks from level 0 upward)
psci_lock_level_on_upward(op, top, k) == IF op = "on" THEN k ELSE top - k

\* (faulty variant: off takes its locks from level 0 upward)
psci_lock_level_off_upward(op, top, k) == IF op = "off" THEN k ELSE top - k

\* the level of the lock a walk takes when it already holds k locks: from the
\* highest level down to level 0, whatever the operation
psci_lock_level(op, top, k) == top - k

\* (faulty variant: every walk writes the ancestors first)
psci_writes_top_down_always(op) == TRUE

\* walks that power up write the ancestors first, walks that power down the cpu
psci_writes_top_down(op) == op \in {"on", "finish"}

\* (faulty variant: a cpu that is being turned on may be turned on again)
cpu_on_validate_state_pending_ok(state) ==
    IF state \in {PSCI_STATE_ON, PSCI_STATE_SUSPEND}
    THEN PSCI_E_ALREADY_ON ELSE PSCI_E_SUCCESS

\* generic check of a cpu that is asked to turn on
cpu_on_validate_state(state) ==
    IF state \in {PSCI_STATE_ON, PSCI_STATE_ON_PENDING, PSCI_STATE_SUSPEND}
    THEN PSCI_E_ALREADY_ON ELSE PSCI_E_SUCCESS

\* result of a platform hook that refused or failed
plat_failure(op) ==
    IF op = "off" THEN PSCI_E_DENIED ELSE PSCI_E_INTERN_FAIL

(***************************************************************************)
(* Front end: the decisions psci_main takes itself.                        *)
(***************************************************************************)
\* (faulty variant: power_on stops at the cpu level)
psci_cpu_on_end_afflvl_cpu_only == MPIDR_AFFLVL0

psci_cpu_on_end_afflvl == get_max_afflvl

\* (faulty variant: off stops at the cpu level)
psci_cpu_off_target_afflvl_cpu_only == MPIDR_AFFLVL0

psci_cpu_off_target_afflvl == get_max_afflvl

\* (faulty variant: standby requests are let through)
psci_cpu_suspend_is_standby_never(power_state) == FALSE

\* TRUE when psci_cpu_suspend rejects the descriptor as a standby request
psci_cpu_suspend_is_standby(power_state) ==
    psci_get_pstate_type(power_state) = PSTATE_TYPE_STANDBY

\* (faulty variant: the walk is asked to stop at the cpu level)
psci_cpu_suspend_end_afflvl_cpu_only(power_state) == MPIDR_AFFLVL0

\* the highest level psci_cpu_suspend hands to the walk
psci_cpu_suspend_end_afflvl(power_state) == psci_get_pstate_afflvl(power_state)

\* TRUE when psci_cpu_suspend rejects the requested affinity level
psci_cpu_suspend_bad_afflvl(power_state) ==
    psci_get_pstate_afflvl(power_state) > MPIDR_MAX_AFFLVL

\* (faulty variant: the level is compared with the architectural maximum)
psci_affinity_info_bad_level_arch_max(lowest_affinity_level) ==
    lowest_affinity_level > MPIDR_MAX_AFFLVL

\* TRUE when psci_affinity_info returns before it looks up a node
psci_affinity_info_bad_level(lowest_affinity_level) ==
    lowest_affinity_level > get_max_afflvl

\* (faulty variant: the state of the node is returned as it is)
psci_affinity_info_rc_no_remap(st, target_affinity, lowest_affinity_level) ==
    IF lowest_affinity_level > get_max_afflvl THEN PSCI_E_INVALID_PARAMS
    ELSE LET node == psci_get_aff_map_node(target_affinity, lowest_affinity_level)
         IN IF node # NoNode /\ PSCI_AFF_PRESENT(node)
            THEN psci_get_state(st, node)
            ELSE PSCI_E_INVALID_PARAMS

\* (faulty variant: the test for the remapping of the state is inverted)
psci_affinity_info_rc_inverted_remap(st, target_affinity, lowest_affinity_level) ==
    IF lowest_affinity_level > get_max_afflvl THEN PSCI_E_INVALID_PARAMS
    ELSE LET node == psci_get_aff_map_node(target_affinity, lowest_affinity_level)
         IN IF node # NoNode /\ PSCI_AFF_PRESENT(node)
            THEN IF psci_get_state(st, node) # PSCI_STATE_SUSPEND
                 THEN PSCI_STATE_ON
                 ELSE psci_get_state(st, node)
            ELSE PSCI_E_INVALID_PARAMS

\* (faulty variant: the presence of the node is not looked at)
psci_affinity_info_rc_any_node(st, target_affinity, lowest_affinity_level) ==
    IF lowest_affinity_level > get_max_afflvl THEN PSCI_E_INVALID_PARAMS
    ELSE LET node == psci_get_aff_map_node(target_affinity, lowest_affinity_level)
         IN IF node # NoNode THEN st[node] ELSE PSCI_E_INVALID_PARAMS

\* the value psci_affinity_info returns
psci_affinity_info_rc(st, target_affinity, lowest_affinity_level) ==
    IF psci_affinity_info_bad_level(lowest_affinity_level)
    THEN PSCI_E_INVALID_PARAMS
    ELSE LET node == psci_get_aff_map_node(target_affinity, lowest_affinity_level)
         IN IF node # NoNode /\ PSCI_AFF_PRESENT(node)
            THEN IF psci_get_state(st, node) = PSCI_STATE_SUSPEND
                 THEN PSCI_STATE_ON
                 ELSE psci_get_state(st, node)
            ELSE PSCI_E_INVALID_PARAMS

\* (faulty variant: off takes only SUCCESS for a good value)
psci_exit_assert_off_strict(op, rc) ==
    CASE op = "suspend" -> rc \in {PSCI_E_SUCCESS, PSCI_E_INVALID_PARAMS}
      [] op = "off" -> rc = PSCI_E_SUCCESS
      [] OTHER -> TRUE

\* (faulty variant: suspend takes only SUCCESS for a good value)
psci_exit_assert_suspend_strict(op, rc) ==
    CASE op = "suspend" -> rc = PSCI_E_SUCCESS
      [] op = "off" -> rc \in {PSCI_E_SUCCESS, PSCI_E_DENIED}
      [] OTHER -> TRUE

\* TRUE when the check at the end of the call holds for the value returned
psci_exit_assert(op, rc) ==
    CASE op = "suspend" -> rc \in {PSCI_E_SUCCESS, PSCI_E_INVALID_PARAMS}
      [] op = "off" -> rc \in {PSCI_E_SUCCESS, PSCI_E_DENIED}
      [] OTHER -> TRUE

(***************************************************************************)
(* Call frames.                                                            *)
(***************************************************************************)
NoFrame ==
    [op |-> "none", target |-> 0, entry |-> 0, pstate |-> 0, end |-> 0,
     walk |-> FALSE, lookup |-> FALSE, world |-> 0, fid |-> "none", nlock |-> 0, lvl |-> 0, rc |-> "NONE", prev |-> <<>>,
     next |-> <<>>, done |-> {}]

CallFrame(op, target, entry, pstate, end) ==
    [NoFrame EXCEPT !.op = op, !.target = target, !.entry = entry,
                    !.pstate = pstate, !.end = end]

\* the frame of a call that has returned keeps the call and its result (walk
\* tells whether the affinity-level walk was entered, lookup whether a query
\* looked up a node of the map); the entry point is kept
\* when the call recorded it for the target
RetFrame(op, target, entry, pstate, end, walk, rc) ==
    [CallFrame(op, target,
               IF op = "on" /\ rc = PSCI_E_SUCCESS THEN entry ELSE 0,
               pstate, end) EXCEPT !.rc = rc, !.walk = walk]

\* a call enters its affinity-level walk (psci_afflvl_on, _off, _suspend or the
\* finisher): the nodes of the range are collected, and with them all found
\* the walk goes on to take their locks
WalkFrame(op, target, entry, pstate, end) ==
    IF psci_get_aff_map_nodes(target, MPIDR_AFFLVL0, end) # PSCI_E_SUCCESS
    THEN RetFrame(op, target, entry, pstate, end, TRUE,
                  psci_get_aff_map_nodes(target, MPIDR_AFFLVL0, end))
    ELSE [CallFrame(op, target, entry, pstate, end) EXCEPT !.walk = TRUE]

WalkPc(target, end) ==
    IF psci_get_aff_map_nodes(target, MPIDR_AFFLVL0, end) # PSCI_E_SUCCESS
    THEN "ret" ELSE "lock"

\* a cpu can issue a call when it is on and not inside one
Running(c) == pc[c] = "idle" /\ aff_state[<<0, c>>] = PSCI_STATE_ON

InWalk(c) == pc[c] \in {"lock", "read", "write", "unlock"}

PathNode(c, l) == psci_get_aff_map_node(frame[c].target, l)

Init ==
    /\ aff_state = [n \in psci_aff_map |->
                      IF ~PSCI_AFF_PRESENT(n) THEN PSCI_STATE_ABSENT
                      ELSE IF n \in {<<0, 0>>, <<1, 0>>} THEN PSCI_STATE_ON
                      ELSE PSCI_STATE_OFF]
    /\ lock = [n \in psci_aff_map |-> {}]
    /\ pc = [c \in Cores |-> "idle"]
    /\ frame = [c \in Cores |-> NoFrame]
    /\ cm_context_info =
           [i \in 0..(PLATFORM_CORE_COUNT - 1) |->
               [w \in {SECURE, NON_SECURE} |->
                   IF i = 0 /\ w = NON_SECURE THEN psci_ns_context(0) ELSE NULL]]
    /\ cpu_context = [r \in CtxRefs |-> ZeroContext]
    /\ cm_last_set = [p \in CmIds \X CmWorlds |->
                         IF p = <<0, NON_SECURE>> THEN psci_ns_context(0) ELSE NULL]


(***************************************************************************)
(* Front-end calls.                                                        *)
(***************************************************************************)
psci_cpu_on(c, target_cpu, entrypoint) ==
    /\ Running(c)
    /\ IF psci_validate_mpidr(target_cpu, MPIDR_AFFLVL0) # PSCI_E_SUCCESS
       THEN /\ pc' = [pc EXCEPT ![c] = "ret"]
            /\ frame' = [frame EXCEPT ![c] =
                   RetFrame("on", target_cpu, entrypoint, 0, 0, FALSE,
                            psci_validate_mpidr(target_cpu, MPIDR_AFFLVL0))]
       ELSE /\ pc' = [pc EXCEPT ![c] = WalkPc(target_cpu, psci_cpu_on_end_afflvl)]
            /\ frame' = [frame EXCEPT ![c] =
                   WalkFrame("on", target_cpu, entrypoint, 0, psci_cpu_on_end_afflvl)]
    /\ UNCHANGED <<aff_state, lock, cm_context_info, cpu_context, cm_last_set>>

psci_cpu_suspend(c, power_state, entrypoint) ==
    /\ Running(c)
    /\ IF psci_cpu_suspend_is_standby(power_state)
          \/ psci_cpu_suspend_bad_afflvl(power_state)
       THEN /\ pc' = [pc EXCEPT ![c] = "ret"]
            /\ frame' = [frame EXCEPT ![c] =
                   RetFrame("suspend", c, entrypoint, power_state, 0, FALSE,
                            PSCI_E_INVALID_PARAMS)]
       ELSE /\ pc' = [pc EXCEPT ![c] =
                   WalkPc(c, psci_cpu_suspend_end_afflvl(power_state))]
            /\ frame' = [frame EXCEPT ![c] =
                   WalkFrame("suspend", c, entrypoint, power_state,
                             psci_cpu_suspend_end_afflvl(power_state))]
    /\ UNCHANGED <<aff_state, lock, cm_context_info, cpu_context, cm_last_set>>

psci_cpu_off(c) ==
    /\ Running(c)
    /\ pc' = [pc EXCEPT ![c] = WalkPc(c, psci_cpu_off_target_afflvl)]
    /\ frame' = [frame EXCEPT ![c] =
           WalkFrame("off", c, 0, 0, psci_cpu_off_target_afflvl)]
    /\ UNCHANGED <<aff_state, lock, cm_context_info, cpu_context, cm_last_set>>

psci_affinity_info(c, target_affinity, lowest_affinity_level) ==
    /\ Running(c)
    /\ pc' = [pc EXCEPT ![c] = "ret"]
    /\ frame' = [frame EXCEPT ![c] =
           [RetFrame("query", target_affinity, 0, 0, lowest_affinity_level, FALSE,
                     psci_affinity_info_rc(aff_state, target_affinity,
                                           lowest_affinity_level))
               EXCEPT !.lookup = ~psci_affinity_info_bad_level(lowest_affinity_level)]]
    /\ UNCHANGED <<aff_state, lock, cm_context_info, cpu_context, cm_last_set>>

(***************************************************************************)
(* The calls psci_smc_handler answers itself or through a stub.            *)
(***************************************************************************)
PSCI_TOS_NOT_PRESENT == "TOS_NOT_PRESENT"
SMC_UNK == "SMC_UNK"

\* the call numbers the handler tells apart, and one it does not know
SmcFids ==
    {"PSCI_VERSION", "PSCI_MIG_AARCH32", "PSCI_MIG_AARCH64", "PSCI_MIG_INFO_TYPE",
     "PSCI_MIG_INFO_UP_CPU_AARCH32", "PSCI_MIG_INFO_UP_CPU_AARCH64",
     "PSCI_SYSTEM_OFF", "PSCI_SYSTEM_RESET", "UNIMPLEMENTED"}

psci_version == "PSCI_VERSION_VALUE"
psci_migrate == PSCI_E_NOT_SUPPORTED
psci_migrate_info_type == PSCI_TOS_NOT_PRESENT
psci_migrate_info_up_cpu == PSCI_E_SUCCESS

\* psci_system_off and psci_system_reset stop in assert(0)
psci_smc_returns(smc_fid) ==
    smc_fid \notin {"PSCI_SYSTEM_OFF", "PSCI_SYSTEM_RESET"}

\* (faulty variant: the default case answers like the migrate stub)
psci_smc_handler_rc_default_not_supported(smc_fid) ==
    CASE smc_fid = "PSCI_VERSION" -> psci_version
      [] smc_fid \in {"PSCI_MIG_AARCH32", "PSCI_MIG_AARCH64"} -> psci_migrate
      [] smc_fid = "PSCI_MIG_INFO_TYPE" -> psci_migrate_info_type
      [] smc_fid \in {"PSCI_MIG_INFO_UP_CPU_AARCH32",
                      "PSCI_MIG_INFO_UP_CPU_AARCH64"} -> psci_migrate_info_up_cpu
      [] OTHER -> PSCI_E_NOT_SUPPORTED

\* the value the handler hands back for a call that returns
psci_smc_handler_rc(smc_fid) ==
    CASE smc_fid = "PSCI_VERSION" -> psci_version
      [] smc_fid \in {"PSCI_MIG_AARCH32", "PSCI_MIG_AARCH64"} -> psci_migrate
      [] smc_fid = "PSCI_MIG_INFO_TYPE" -> psci_migrate_info_type
      [] smc_fid \in {"PSCI_MIG_INFO_UP_CPU_AARCH32",
                      "PSCI_MIG_INFO_UP_CPU_AARCH64"} -> psci_migrate_info_up_cpu
      [] OTHER -> SMC_UNK

psci_smc_handler(c, smc_fid) ==
    /\ Running(c)
    /\ pc' = [pc EXCEPT ![c] = IF psci_smc_returns(smc_fid) THEN "ret" ELSE "panic"]
    /\ frame' = [frame EXCEPT ![c] =
           [NoFrame EXCEPT !.op = "smc", !.fid = smc_fid,
                           !.rc = IF psci_smc_returns(smc_fid)
                                  THEN psci_smc_handler_rc(smc_fid) ELSE "NONE"]]
    /\ UNCHANGED <<aff_state, lock, cm_context_info, cpu_context, cm_last_set>>

\* a cpu that was turned on, or a suspended cpu that an interrupt wakes,
\* enters the finisher for its own nodes
psci_afflvl_power_on_finish(c) ==
    /\ pc[c] = "idle"
    /\ aff_state[<<0, c>>] \in {PSCI_STATE_ON_PENDING, PSCI_STATE_SUSPEND}
    /\ pc' = [pc EXCEPT ![c] = WalkPc(c, get_max_afflvl)]
    /\ frame' = [frame EXCEPT ![c] = WalkFrame("finish", c, 0, 0, get_max_afflvl)]
    /\ UNCHANGED <<aff_state, lock, cm_context_info, cpu_context, cm_last_set>>

(***************************************************************************)
(* The affinity-level walk, one step of the walking cpu at a time.         *)
(***************************************************************************)
\* (faulty variant: the lock lets every cpu in)
bakery_lock_free_always(holders) == TRUE

\* the lock of a node can be taken when no cpu is inside it
bakery_lock_free(holders) == holders = {}

\* the node whose lock cpu c takes when it holds k locks of its walk
LockNode(c, k) ==
    PathNode(c, psci_lock_level(frame[c].op, psci_top_lock_level(frame[c].end), k))

bakery_lock_get(c) ==
    /\ pc[c] = "lock"
    /\ bakery_lock_free(lock[LockNode(c, frame[c].nlock)])
    /\ lock' = [lock EXCEPT ![LockNode(c, frame[c].nlock)] = @ \cup {c}]
    /\ frame' = [frame EXCEPT ![c].nlock = @ + 1]
    /\ pc' = [pc EXCEPT ![c] =
               IF frame[c].nlock = psci_top_lock_level(frame[c].end)
               THEN "read" ELSE "lock"]
    /\ UNCHANGED <<aff_state, cm_context_info, cpu_context, cm_last_set>>

\* with the locks held: validate, ask the platform, and work out the new states
psci_afflvl_read(c) ==
    /\ pc[c] = "read"
    /\ LET f == frame[c]
           valid == IF f.op = "on"
                    THEN cpu_on_validate_state(
                             psci_get_state(aff_state, PathNode(c, MPIDR_AFFLVL0)))
                    ELSE PSCI_E_SUCCESS
       IN IF valid # PSCI_E_SUCCESS
          THEN /\ pc' = [pc EXCEPT ![c] = "unlock"]
               /\ frame' = [frame EXCEPT ![c].rc = valid, ![c].lvl = MPIDR_AFFLVL0,
                                         ![c].entry = 0]
          ELSE \E plat_ok \in BOOLEAN :
                 IF ~plat_ok /\ f.op # "finish"
                 THEN /\ pc' = [pc EXCEPT ![c] = "unlock"]
                      /\ frame' = [frame EXCEPT ![c].rc = plat_failure(f.op),
                                                ![c].lvl = MPIDR_AFFLVL0,
                                                ![c].entry = 0]
                 ELSE /\ plat_ok
                      /\ pc' = [pc EXCEPT ![c] = "write"]
                      /\ frame' = [frame EXCEPT
                           ![c].rc = PSCI_E_SUCCESS,
                           ![c].prev = [l \in 1..(f.end + 1) |->
                                           aff_state[PathNode(c, l - 1)]],
                           ![c].next = psci_change_state(f.target, MPIDR_AFFLVL0, f.end,
                                           psci_target_state(f.op), aff_state),
                           ![c].lvl = IF psci_writes_top_down(f.op)
                                      THEN f.end ELSE MPIDR_AFFLVL0]
    /\ UNCHANGED <<aff_state, lock, cm_context_info, cpu_context, cm_last_set>>

\* write the new state of the node at the current level; at level 0 the
\* architectural part of the transition is done with it
psci_afflvl_write(c) ==
    /\ pc[c] = "write"
    /\ LET f == frame[c]
           node == PathNode(c, f.lvl)
           last == IF psci_writes_top_down(f.op)
                   THEN f.lvl = MPIDR_AFFLVL0 ELSE f.lvl = f.end
           idx == platform_get_core_pos(f.target)
       IN /\ aff_state' = [aff_state EXCEPT ![node] = f.next[f.lvl + 1]]
          /\ frame' = [frame EXCEPT
                 ![c].done = @ \cup {f.lvl},
                 ![c].entry = IF f.op = "suspend" THEN 0 ELSE @,
                 ![c].lvl = IF last THEN MPIDR_AFFLVL0
                            ELSE IF psci_writes_top_down(f.op) THEN f.lvl - 1
                            ELSE f.lvl + 1]
          /\ pc' = [pc EXCEPT ![c] = IF last THEN "unlock" ELSE "write"]
          /\ IF f.lvl # MPIDR_AFFLVL0
             THEN UNCHANGED <<cm_context_info, cpu_context, cm_last_set>>
             ELSE CASE f.op = "on" ->
                       \* the directing cpu hands the target its snapshot, with
                       \* the entry point the target resumes at
                       /\ cm_context_info' =
                              cm_set_context(cm_context_info, f.target,
                                             psci_ns_context(idx), NON_SECURE)
                       /\ cpu_context' =
                              psci_set_ns_entry_info(cpu_context, cm_context_info',
                                                     f.target, f.entry)
                       /\ cm_last_set' =
                              [cm_last_set EXCEPT ![<<f.target, NON_SECURE>>] =
                                   psci_ns_context(idx)]
                    [] f.op = "suspend" ->
                       \* the suspending cpu programs its own resume entry
                       /\ cpu_context' =
                              cm_set_el3_eret_context(cpu_context, cm_context_info, c,
                                                      NON_SECURE, f.entry)
                       /\ UNCHANGED <<cm_context_info, cm_last_set>>
                    [] OTHER ->
                       UNCHANGED <<cm_context_info, cpu_context, cm_last_set>>
    /\ UNCHANGED lock

\* the locks are released in the reverse order of their acquisition
bakery_lock_release(c) ==
    /\ pc[c] = "unlock"
    /\ lock' = [lock EXCEPT ![LockNode(c, frame[c].nlock - 1)] = @ \ {c}]
    /\ IF frame[c].nlock = 1
       THEN IF frame[c].op = "finish"
            THEN /\ pc' = [pc EXCEPT ![c] = "idle"]
                 /\ frame' = [frame EXCEPT ![c] = NoFrame]
            ELSE /\ pc' = [pc EXCEPT ![c] = "ret"]
                 /\ frame' = [frame EXCEPT ![c] =
                        RetFrame(@.op, @.target, @.entry, @.pstate, @.end, TRUE, @.rc)]
       ELSE /\ pc' = pc
            /\ frame' = [frame EXCEPT ![c].nlock = @ - 1]
    /\ UNCHANGED <<aff_state, cm_context_info, cpu_context, cm_last_set>>

\* the value goes back to the caller, unless the check at the exit fails
psci_return(c) ==
    /\ pc[c] = "ret"
    /\ pc' = [pc EXCEPT ![c] = IF psci_exit_assert(frame[c].op, frame[c].rc)
                               THEN "idle" ELSE "panic"]
    /\ frame' = [frame EXCEPT ![c] = NoFrame]
    /\ UNCHANGED <<aff_state, lock, cm_context_info, cpu_context, cm_last_set>>

Step(c) ==
    \/ bakery_lock_get(c)
    \/ psci_afflvl_read(c)
    \/ psci_afflvl_write(c)
    \/ bakery_lock_release(c)
    \/ psci_return(c)
    \/ psci_afflvl_power_on_finish(c)

Next ==
    \/ \E c \in Cores, t \in TargetIds, e \in Entrypoints : psci_cpu_on(c, t, e)
    \/ \E c \in Cores, ps \in PowerStates, e \in Entrypoints : psci_cpu_suspend(c, ps, e)
    \/ \E c \in Cores : psci_cpu_off(c)
    \/ \E c \in Cores, t \in TargetIds, l \in 0..MPIDR_MAX_AFFLVL :
           psci_affinity_info(c, t, l)
    \/ \E c \in Cores : bakery_lock_get(c)
    \/ \E c \in Cores : psci_afflvl_read(c)
    \/ \E c \in Cores : psci_afflvl_write(c)
    \/ \E c \in Cores : bakery_lock_release(c)
    \/ \E c \in Cores : psci_return(c)
    \/ \E c \in Cores : psci_afflvl_power_on_finish(c)

Spec == Init /\ [][Next]_vars

\* Every cpu keeps executing the call it is in; the bakery lock serves its
\* waiters in ticket order, so a cpu that keeps finding the lock taken is
\* eventually served.
FairSpec ==
    /\ Spec
    /\ \A c \in Cores : WF_vars(Step(c)) /\ SF_vars(bakery_lock_get(c))

TypeOK ==
    /\ aff_state \in [psci_aff_map -> {PSCI_STATE_ON, PSCI_STATE_OFF,
                         PSCI_STATE_ON_PENDING, PSCI_STATE_SUSPEND, PSCI_STATE_ABSENT}]
    /\ lock \in [psci_aff_map -> SUBSET Cores]
    /\ pc \in [Cores -> {"idle", "lock", "read", "write", "unlock", "ret", "panic"}]


(***************************************************************************)
(* The calls the handler answers itself, made in every state the map can   *)
(* be in while the caller runs.                                            *)
(***************************************************************************)
\* cpu 0 is on; cpu 1 is in state s, and unless it is off a power_on has given
\* it its snapshot with entry point e
SmcInit ==
    \E s \in {PSCI_STATE_ON, PSCI_STATE_OFF, PSCI_STATE_ON_PENDING,
               PSCI_STATE_SUSPEND},
       e \in Entrypoints :
        /\ aff_state = [n \in psci_aff_map |->
                          IF ~PSCI_AFF_PRESENT(n) THEN PSCI_STATE_ABSENT
                          ELSE IF n \in {<<0, 0>>, <<1, 0>>} THEN PSCI_STATE_ON
                          ELSE IF n = <<0, 1>> THEN s
                          ELSE PSCI_STATE_OFF]
        /\ lock = [n \in psci_aff_map |-> {}]
        /\ pc = [c \in Cores |-> "idle"]
        /\ frame = [c \in Cores |-> NoFrame]
        /\ cm_context_info =
               [i \in 0..(PLATFORM_CORE_COUNT - 1) |->
                   [w \in CmWorlds |->
                       IF w = NON_SECURE /\ (i = 0 \/ (i = 1 /\ s # PSCI_STATE_OFF))
                       THEN psci_ns_context(i) ELSE NULL]]
        /\ cpu_context =
               [r \in CtxRefs |->
                   IF r = psci_ns_context(1) /\ s # PSCI_STATE_OFF
                   THEN [ZeroContext EXCEPT !.elr = e] ELSE ZeroContext]
        /\ cm_last_set =
               [p \in CmIds \X CmWorlds |->
                   IF p = <<0, NON_SECURE>> THEN psci_ns_context(0)
                   ELSE IF p = <<1, NON_SECURE>> /\ s # PSCI_STATE_OFF
                        THEN psci_ns_context(1) ELSE NULL]

SmcNext ==
    \/ \E c \in Cores, fid \in SmcFids : psci_smc_handler(c, fid)
    \/ \E c \in Cores : psci_return(c)

SmcSpec == SmcInit /\ [][SmcNext]_vars

(***************************************************************************)
(* The context management library on its own: any cpu sets slots for any   *)
(* cpu, and one cpu calls one of the operations on a snapshot.              *)
(***************************************************************************)
CmRefs == {psci_ns_context(0), psci_ns_context(1)}

\* the registers of the calling cpu, and the exception stack of a cpu
read_sysregs(c) == c + 1
get_exception_stack(mpidr) == mpidr + 1

\* (faulty variant: the check of the snapshot pointer is compiled out)
cm_assert_ctx_off(ctx) == TRUE

\* assert(ctx)
cm_assert_ctx(ctx) == ctx # NULL

\* cpu c calls op for the snapshot of (mpidr, security_state); written is what
\* the snapshots hold after the body that follows the assert
CmCall(c, op, mpidr, security_state, entrypoint, written) ==
    /\ \A d \in Cores : pc[d] = "idle"
    /\ LET ctx == cm_get_context(cm_context_info, mpidr, security_state)
       IN /\ pc' = [pc EXCEPT ![c] = IF cm_assert_ctx(ctx) THEN "ret" ELSE "panic"]
          /\ cpu_context' = IF cm_assert_ctx(ctx) THEN written ELSE cpu_context
    /\ frame' = [frame EXCEPT ![c] =
           [NoFrame EXCEPT !.op = op, !.target = mpidr, !.world = security_state,
                           !.entry = entrypoint]]
    /\ UNCHANGED <<aff_state, lock, cm_context_info, cm_last_set>>

\* the snapshots after field fld of the snapshot of (mpidr, security_state) is
\* written
write_ctx_reg(ctxs, info, mpidr, security_state, fld, val) ==
    LET ctx == cm_get_context(info, mpidr, security_state)
    IN IF ctx = NULL THEN ctxs ELSE [ctxs EXCEPT ![ctx][fld] = val]

cm_set_context_call(mpidr, context, security_state) ==
    /\ cm_context_info' = cm_set_context(cm_context_info, mpidr, context, security_state)
    /\ cm_last_set' = [cm_last_set EXCEPT ![<<mpidr, security_state>>] = context]
    /\ UNCHANGED <<aff_state, lock, pc, frame, cpu_context>>

cm_el3_sysregs_context_save(c, security_state) ==
    CmCall(c, "el3_save", c, security_state, 0,
           write_ctx_reg(cpu_context, cm_context_info, c, security_state,
                         "el3", read_sysregs(c)))

cm_el3_sysregs_context_restore(c, security_state) ==
    CmCall(c, "el3_restore", c, security_state, 0, cpu_context)

cm_el1_sysregs_context_save(c, security_state) ==
    CmCall(c, "el1_save", c, security_state, 0,
           write_ctx_reg(cpu_context, cm_context_info, c, security_state,
                         "el1", read_sysregs(c)))

cm_el1_sysregs_context_restore(c, security_state) ==
    CmCall(c, "el1_restore", c, security_state, 0, cpu_context)

cm_set_el3_eret_context_call(c, security_state, entrypoint) ==
    CmCall(c, "set_el3_eret", c, security_state, entrypoint,
           cm_set_el3_eret_context(cpu_context, cm_context_info, c,
                                   security_state, entrypoint))

\* SP_EL3 of the calling cpu is pointed at the snapshot; no snapshot is written
cm_set_next_eret_context(c, security_state) ==
    CmCall(c, "set_next_eret", c, security_state, 0, cpu_context)

cm_init_exception_stack(c, mpidr, security_state) ==
    CmCall(c, "init_exception_stack", mpidr, security_state, 0,
           write_ctx_reg(cpu_context, cm_context_info, mpidr, security_state,
                         "sp", get_exception_stack(mpidr)))

\* the library after cm_init: every slot is NULL
CmInit ==
    /\ aff_state = [n \in psci_aff_map |->
                      IF ~PSCI_AFF_PRESENT(n) THEN PSCI_STATE_ABSENT
                      ELSE IF n \in {<<0, 0>>, <<1, 0>>} THEN PSCI_STATE_ON
                      ELSE PSCI_STATE_OFF]
    /\ lock = [n \in psci_aff_map |-> {}]
    /\ pc = [c \in Cores |-> "idle"]
    /\ frame = [c \in Cores |-> NoFrame]
    /\ cm_context_info = [i \in 0..(PLATFORM_CORE_COUNT - 1) |->
                             [w \in CmWorlds |-> NULL]]
    /\ cpu_context = [r \in CtxRefs |-> ZeroContext]
    /\ cm_last_set = [p \in CmIds \X CmWorlds |-> NULL]

CmNext ==
    \/ \E m \in CmIds, r \in CmRefs, w \in CmWorlds : cm_set_context_call(m, r, w)
    \/ \E c \in Cores, w \in CmWorlds : cm_el3_sysregs_context_save(c, w)
    \/ \E c \in Cores, w \in CmWorlds : cm_el3_sysregs_context_restore(c, w)
    \/ \E c \in Cores, w \in CmWorlds : cm_el1_sysregs_context_save(c, w)
    \/ \E c \in Cores, w \in CmWorlds : cm_el1_sysregs_context_restore(c, w)
    \/ \E c \in Cores, w \in CmWorlds, e \in Entrypoints :
           cm_set_el3_eret_context_call(c, w, e)
    \/ \E c \in Cores, w \in CmWorlds : cm_set_next_eret_context(c, w)
    \/ \E c \in Cores, m \in CmIds, w \in CmWorlds : cm_init_exception_stack(c, m, w)

CmSpec == CmInit /\ [][CmNext]_vars

(***************************************************************************)
(* Properties.                                                             *)
(***************************************************************************)
\* the cpu that takes the step
Actor(c) == pc'[c] # pc[c] \/ frame'[c] # frame[c]

SharedNodes == {n \in psci_aff_map : n[1] >= 1}

AllOff(nodes) == \A n \in nodes : aff_state[n] = PSCI_STATE_OFF

\* cpu c, inside an off call, has written node n from a state other than OFF
\* to OFF: it is the one that saw n go off
ObservedOff(c, n) ==
    /\ frame[c].op = "off"
    /\ n[1] \in frame[c].done
    /\ PathNode(c, n[1]) = n
    /\ frame[c].prev[n[1] + 1] # PSCI_STATE_OFF
    /\ frame[c].next[n[1] + 1] = PSCI_STATE_OFF

C1_NoTwoHolders == \A n \in psci_aff_map : Cardinality(lock[n]) <= 1

C1_ChangedByHolder ==
    \A n \in SharedNodes :
        aff_state'[n] # aff_state[n] => \E c \in Cores : lock[n] = {c} /\ Actor(c)

\* C1: in every interleaving of power_on, off and suspend, the state of a node
\* at level >= 1 changes only in a step of the cpu that holds the node's lock,
\* and no lock is ever held by two cpus.
C1_LockDiscipline == [](C1_NoTwoHolders) /\ [][C1_ChangedByHolder]_vars

\* C1 witness: a cpu inside an off call has changed its cluster's state while
\* the other cpu waits for a lock.
C1_Witness ==
    \E c, d \in Cores :
        /\ c # d
        /\ frame[c].op = "off" /\ 1 \in frame[c].done
        /\ frame[c].prev[2] # frame[c].next[2]
        /\ lock[<<1, 0>>] = {c}
        /\ pc[d] = "lock"

\* C2: concurrent power_on, off and suspend cannot deadlock: every cpu that
\* has started an affinity-level walk eventually has taken its locks, finished
\* and released them all.
C2_WalkCompletes ==
    \A c \in Cores :
        InWalk(c) ~> (~InWalk(c) /\ \A n \in psci_aff_map : c \notin lock[n])

\* C2 witness: both cpus are inside walks over the same cluster, one holding
\* the cluster's lock and the other waiting for it.
C2_Witness ==
    \E c, d \in Cores :
        /\ c # d
        /\ lock[<<1, 0>>] = {c}
        /\ pc[d] = "lock" /\ frame[d].nlock = 0
        /\ frame[c].op \in {"on", "off", "suspend"}
        /\ frame[d].op \in {"on", "off", "suspend"}

C3_OffSeenOnce ==
    \A n \in SharedNodes : \A c, d \in Cores :
        c # d => ~(ObservedOff(c, n) /\ ObservedOff(d, n))

C3_NoLostUpdate ==
    \A n \in SharedNodes :
        lock[n] = {} => (aff_state[n] = PSCI_STATE_OFF <=> AllOff(Children(n)))

\* C3: when two cpus of one cluster call off concurrently, the cluster is seen
\* going OFF by at most one of them, and once the cluster's lock is free the
\* cluster is OFF exactly when all its present cpus are OFF (no update lost).
C3_OffSerialized == C3_OffSeenOnce /\ C3_NoLostUpdate

\* C3 witness: both cpus called off; the first has returned SUCCESS and the
\* second, which waited for the cluster's lock, has seen the cluster go OFF.
C3_Witness ==
    \E c, d \in Cores :
        /\ c # d
        /\ pc[c] = "ret" /\ frame[c].op = "off" /\ frame[c].rc = PSCI_E_SUCCESS
        /\ ObservedOff(d, <<1, 0>>)

\* C4 as stated: a node that is ON or SUSPEND has all its present children ON
\* or SUSPEND.
C4_AllChildrenOn ==
    \A n \in SharedNodes :
        aff_state[n] \in {PSCI_STATE_ON, PSCI_STATE_SUSPEND}
            => \A k \in Children(n) :
                   aff_state[k] \in {PSCI_STATE_ON, PSCI_STATE_SUSPEND}

\* C4 amended: while its lock is free, a node that is ON or SUSPEND has at
\* least one present child ON or SUSPEND.
C4_SomeChildOn ==
    \A n \in SharedNodes :
        (lock[n] = {} /\ aff_state[n] \in {PSCI_STATE_ON, PSCI_STATE_SUSPEND})
            => \E k \in Children(n) :
                   aff_state[k] \in {PSCI_STATE_ON, PSCI_STATE_SUSPEND}

\* C4 witness: the cluster is SUSPEND, its lock free, one cpu suspended and
\* the other off.
C4_Witness ==
    /\ aff_state[<<1, 0>>] = PSCI_STATE_SUSPEND
    /\ lock[<<1, 0>>] = {}
    /\ \E c, d \in Cores :
           /\ aff_state[<<0, c>>] = PSCI_STATE_SUSPEND
           /\ aff_state[<<0, d>>] = PSCI_STATE_OFF

C5_ParentOffChildrenOff ==
    \A n \in SharedNodes :
        aff_state[n] = PSCI_STATE_OFF => AllOff(Children(n))

C5_OffAfterChildren ==
    \A n \in SharedNodes :
        (aff_state[n] # PSCI_STATE_OFF /\ aff_state'[n] = PSCI_STATE_OFF)
            => AllOff(Children(n))

\* C5: a node at level >= 1 goes to OFF only in a step that finds all its
\* present children already OFF, and no state has a parent OFF with a present
\* child ON, ON_PENDING or SUSPEND.
C5_OffOnlyAfterChildren ==
    [](C5_ParentOffChildrenOff) /\ [][C5_OffAfterChildren]_vars

\* C5 witness: the last cpu of the cluster has turned itself and then the
\* cluster off.
C5_Witness ==
    /\ aff_state[<<1, 0>>] = PSCI_STATE_OFF
    /\ \E c \in Cores : ObservedOff(c, <<1, 0>>)


\* the shared state a call can touch
Shared == <<aff_state, lock, cm_context_info, cpu_context>>

\* the entry point in the non-secure snapshot of cpu t (-1: no snapshot set)
ElrOf(info, ctxs, t) ==
    IF cm_get_context(info, t, NON_SECURE) = NULL THEN -1
    ELSE ctxs[cm_get_context(info, t, NON_SECURE)].elr

\* C6 as stated: power_on, query and suspend for an identifier that is no
\* present cpu of the map return INVALID_PARAMS.
C6_AbsentIdRejected ==
    \A c \in Cores :
        (pc[c] = "ret" /\ frame[c].op \in {"on", "query", "suspend"}
                       /\ frame[c].target \notin Cores)
            => frame[c].rc = PSCI_E_INVALID_PARAMS

C6_RejectedAtOnce ==
    \A c \in Cores :
        (/\ frame[c].op \in {"on", "query"}
         /\ frame[c].target \notin Cores
         /\ frame[c].op = "query" => frame[c].end = MPIDR_AFFLVL0)
            => /\ pc[c] = "ret"
               /\ frame[c].rc = PSCI_E_INVALID_PARAMS
               /\ ~frame[c].walk

C6_NoMutation ==
    \A c \in Cores :
        (/\ pc[c] = "idle" /\ Actor(c)
         /\ frame'[c].op \in {"on", "query"}
         /\ frame'[c].target \notin Cores)
            => UNCHANGED Shared

\* C6 amended: for an identifier that is no present cpu of the map, power_on,
\* and query at level 0, return INVALID_PARAMS in one step that enters no walk
\* and changes no node state, lock, context slot or snapshot; query at a higher
\* level changes nothing either.
C6_AbsentCpuRejected == [](C6_RejectedAtOnce) /\ [][C6_NoMutation]_vars

\* C6 witness: power_on for the absent cpu has returned INVALID_PARAMS while
\* the other cpu holds locks.
C6_Witness ==
    \E c, d \in Cores :
        /\ pc[c] = "ret" /\ frame[c].op = "on" /\ frame[c].target = 256
        /\ frame[c].rc = PSCI_E_INVALID_PARAMS
        /\ d # c /\ lock[<<1, 0>>] = {d}

C7_Rejects ==
    \A c \in Cores :
        (/\ pc[c] = "read" /\ frame[c].op = "on" /\ Actor(c)
         /\ aff_state[<<0, frame[c].target>>]
                \in {PSCI_STATE_ON, PSCI_STATE_ON_PENDING})
            => /\ pc'[c] = "unlock"
               /\ frame'[c].rc = PSCI_E_ALREADY_ON
               /\ UNCHANGED Shared

C7_Unwinds ==
    \A c \in Cores :
        (/\ pc[c] = "unlock" /\ frame[c].op = "on" /\ Actor(c)
         /\ frame[c].rc = PSCI_E_ALREADY_ON)
            => /\ UNCHANGED <<aff_state, cm_context_info, cpu_context>>
               /\ frame'[c].rc = PSCI_E_ALREADY_ON
               /\ pc'[c] \in {"unlock", "ret"}

C8_RecordedAtReturn ==
    \A c \in Cores :
        (/\ Actor(c) /\ pc'[c] = "ret" /\ frame'[c].op = "on"
         /\ frame'[c].rc = PSCI_E_SUCCESS)
            => /\ aff_state'[<<0, frame'[c].target>>] = PSCI_STATE_ON_PENDING
               /\ ElrOf(cm_context_info', cpu_context', frame'[c].target)
                      = frame'[c].entry
               /\ frame'[c].entry \in Entrypoints

C8_EntryKept ==
    \A t \in Cores :
        aff_state[<<0, t>>] = PSCI_STATE_ON_PENDING
            => ElrOf(cm_context_info', cpu_context', t)
                   = ElrOf(cm_context_info, cpu_context, t)

C8_PendingTurnsOn ==
    \A t \in Cores :
        (aff_state[<<0, t>>] = PSCI_STATE_ON_PENDING)
            ~> (psci_affinity_info_rc(aff_state, t, MPIDR_AFFLVL0) = PSCI_STATE_ON)

\* C8: when power_on(core, E, A) returns SUCCESS the target is ON_PENDING with
\* E in its non-secure snapshot; E stays there while the target is ON_PENDING,
\* and query(core, 0) eventually returns ON.
C8_OnEventually ==
    [][C8_RecordedAtReturn]_vars /\ [][C8_EntryKept]_vars /\ C8_PendingTurnsOn

\* C8 witness: the target of a power_on that returned SUCCESS is ON, with the
\* entry point of that call in its snapshot.
C8_Witness ==
    \E c, t \in Cores :
        /\ c # t
        /\ pc[c] = "ret" /\ frame[c].op = "on" /\ frame[c].target = t
        /\ frame[c].rc = PSCI_E_SUCCESS
        /\ psci_affinity_info_rc(aff_state, t, MPIDR_AFFLVL0) = PSCI_STATE_ON
        /\ aff_state[<<0, t>>] = PSCI_STATE_ON
        /\ ElrOf(cm_context_info, cpu_context, t) = frame[c].entry

StandbyStates == {psci_make_pstate(0, PSTATE_TYPE_STANDBY, l) : l \in 0..3}

C9_StandbyRejected ==
    \A c \in Cores :
        (frame[c].op = "suspend" /\ frame[c].pstate \in StandbyStates)
            => /\ pc[c] = "ret"
               /\ frame[c].rc = PSCI_E_INVALID_PARAMS
               /\ ~frame[c].walk

C9_NothingTouched ==
    \A c \in Cores :
        (/\ pc[c] = "idle" /\ Actor(c)
         /\ frame'[c].op = "suspend" /\ frame'[c].pstate \in StandbyStates)
            => UNCHANGED Shared

\* C9: suspend with a descriptor whose type field is standby (0) returns
\* INVALID_PARAMS, whatever the entry point and the target level, in one step
\* that enters no walk and changes no node state, lock or context.
C9_Standby == [](C9_StandbyRejected) /\ [][C9_NothingTouched]_vars

\* C9 witness: a standby request for affinity level 1 has been rejected.
C9_Witness ==
    \E c \in Cores :
        /\ pc[c] = "ret" /\ frame[c].op = "suspend"
        /\ frame[c].pstate = psci_make_pstate(0, PSTATE_TYPE_STANDBY, 1)
        /\ frame[c].rc = PSCI_E_INVALID_PARAMS

\* C10 as stated: suspend with a power-down descriptor whose target level is
\* above the level get_max_afflvl reports returns INVALID_PARAMS without the
\* affinity-level walk being entered.
C10_AboveMaxNeverWalks ==
    \A c \in Cores :
        (/\ frame[c].op = "suspend"
         /\ frame[c].pstate \in {psci_make_pstate(0, PSTATE_TYPE_POWERDOWN, l) :
                                    l \in (get_max_afflvl + 1)..3})
            => /\ pc[c] = "ret"
               /\ frame[c].rc = PSCI_E_INVALID_PARAMS
               /\ ~frame[c].walk


\* the levels a suspend call was asked to take down
RequestedLevels(c) == MPIDR_AFFLVL0..psci_get_pstate_afflvl(frame[c].pstate)

C11_CommitComplete ==
    \A c \in Cores :
        (frame[c].op = "suspend" /\ pc[c] = "unlock")
            => IF frame[c].rc = PSCI_E_SUCCESS
               THEN /\ frame[c].done = RequestedLevels(c)
                    /\ frame[c].next[1] = PSCI_STATE_SUSPEND
                    /\ \A l \in RequestedLevels(c) :
                           aff_state[PathNode(c, l)] = frame[c].next[l + 1]
               ELSE frame[c].done = {}

C11_WritesOnSuccess ==
    \A c \in Cores :
        (Actor(c) /\ frame[c].op \in {"none", "suspend"}
                  /\ frame'[c].op = "suspend" /\ aff_state' # aff_state)
            => /\ pc[c] = "write"
               /\ frame[c].rc = PSCI_E_SUCCESS
               /\ frame[c].lvl \in RequestedLevels(c)

C12_OtherCodeFromHook ==
    \A c \in Cores :
        (/\ Actor(c) /\ frame'[c].op = "suspend"
         /\ frame'[c].rc # frame[c].rc
         /\ frame'[c].rc \notin {PSCI_E_SUCCESS, PSCI_E_INVALID_PARAMS})
            => /\ pc[c] = "read"
               /\ frame'[c].rc = PSCI_E_INTERN_FAIL
               /\ UNCHANGED Shared

C12_AssertFiresOnHookFailure ==
    \A c \in Cores :
        (Actor(c) /\ pc[c] = "ret" /\ frame[c].op = "suspend")
            => /\ frame[c].rc \in {PSCI_E_SUCCESS, PSCI_E_INVALID_PARAMS,
                                   PSCI_E_INTERN_FAIL}
               /\ pc'[c] = "panic" <=> frame[c].rc = PSCI_E_INTERN_FAIL

C13_SuccessOrDenied ==
    \A c \in Cores :
        (frame[c].op = "off" /\ pc[c] \in {"unlock", "ret"})
            => /\ frame[c].rc \in {PSCI_E_SUCCESS, PSCI_E_DENIED}
               /\ frame[c].walk

C13_AssertHolds ==
    \A c \in Cores :
        (Actor(c) /\ pc[c] = "ret" /\ frame[c].op = "off")
            => pc'[c] = "idle"

C14_OffAtReturn ==
    \A c \in Cores :
        (/\ Actor(c) /\ pc'[c] = "ret" /\ frame'[c].op = "off"
         /\ frame'[c].rc = PSCI_E_SUCCESS)
            => psci_affinity_info_rc(aff_state', c, MPIDR_AFFLVL0) = PSCI_STATE_OFF

C14_OffUntilOn ==
    \A t \in Cores :
        (aff_state[<<0, t>>] = PSCI_STATE_OFF /\ aff_state'[<<0, t>>] # PSCI_STATE_OFF)
            => \E d \in Cores :
                   /\ Actor(d) /\ pc[d] = "write"
                   /\ frame[d].op = "on" /\ frame[d].target = t
                   /\ frame[d].rc = PSCI_E_SUCCESS

C14_QueryReadsOff ==
    \A d \in Cores :
        (/\ Actor(d) /\ pc[d] = "idle" /\ frame'[d].op = "query"
         /\ frame'[d].end = MPIDR_AFFLVL0 /\ frame'[d].target \in Cores
         /\ aff_state[<<0, frame'[d].target>>] = PSCI_STATE_OFF)
            => frame'[d].rc = PSCI_STATE_OFF

\* C14: when off returns SUCCESS the caller's cpu node is OFF; it stays OFF
\* until a power_on for that cpu is accepted, and every query(core, 0) made
\* while it is OFF returns OFF.
C14_OffThenQueryOff ==
    /\ [][C14_OffAtReturn]_vars
    /\ [][C14_OffUntilOn]_vars
    /\ [][C14_QueryReadsOff]_vars

\* C14 witness: after the off call of one cpu returned SUCCESS, the other
\* cpu's query for it at level 0 has returned OFF.
C14_Witness ==
    \E c, d \in Cores :
        /\ pc[c] = "ret" /\ frame[c].op = "off" /\ frame[c].rc = PSCI_E_SUCCESS
        /\ pc[d] = "ret" /\ frame[d].op = "query" /\ frame[d].target = c
        /\ frame[d].end = MPIDR_AFFLVL0 /\ frame[d].rc = PSCI_STATE_OFF


\* C15: a query for a level above the level get_max_afflvl reports returns
\* INVALID_PARAMS at once, for every identifier and every state of the map,
\* and no node is looked up.
C15_LevelAboveMax ==
    \A c \in Cores :
        (frame[c].op = "query" /\ frame[c].end > get_max_afflvl)
            => /\ pc[c] = "ret"
               /\ frame[c].rc = PSCI_E_INVALID_PARAMS
               /\ ~frame[c].lookup

\* C15 witness: a cpu whose own node is ON has asked for its own state at a
\* level above the maximum, and was refused, while the other cpu is off.
C15_Witness ==
    \E c, d \in Cores :
        /\ pc[c] = "ret" /\ frame[c].op = "query" /\ frame[c].target = c
        /\ frame[c].end = get_max_afflvl + 1
        /\ frame[c].rc = PSCI_E_INVALID_PARAMS
        /\ aff_state[<<0, c>>] = PSCI_STATE_ON
        /\ aff_state[<<0, d>>] = PSCI_STATE_OFF


\* the present node of the map a query is about, if there is one
QueriedNodes(f) ==
    {n \in psci_aff_map :
        /\ PSCI_AFF_PRESENT(n)
        /\ n = <<f.end, mpidr_mask(f.target, f.end)>>}

C16_NeverSuspend ==
    \A c \in Cores :
        frame[c].op = "query" => frame[c].rc # PSCI_STATE_SUSPEND

C16_Answer ==
    \A c \in Cores :
        (Actor(c) /\ pc[c] = "idle" /\ frame'[c].op = "query")
            => /\ UNCHANGED Shared
               /\ \A n \in QueriedNodes(frame'[c]) :
                      frame'[c].rc =
                          IF aff_state[n] \in {PSCI_STATE_ON, PSCI_STATE_SUSPEND}
                          THEN PSCI_STATE_ON ELSE aff_state[n]

\* C16: query never returns SUSPEND; for a present node it returns ON when the
\* node is ON or SUSPEND and the node's own state (OFF, ON_PENDING) otherwise,
\* and it changes no state.
C16_QueryResult == [](C16_NeverSuspend) /\ [][C16_Answer]_vars

\* C16 witness: a query about a cpu that is suspended has returned ON.
C16_Witness ==
    \E c, d \in Cores :
        /\ pc[c] = "ret" /\ frame[c].op = "query" /\ frame[c].target = d
        /\ frame[c].end = MPIDR_AFFLVL0 /\ frame[c].rc = PSCI_STATE_ON
        /\ d # c /\ aff_state[<<0, d>>] = PSCI_STATE_SUSPEND /\ pc[d] = "idle"


\* C17: after any sequence of cm_set_context calls, cm_get_context returns for
\* every (cpu, security state) pair the reference of the latest call for that
\* pair, and NULL when there was none; so a call for one pair shows through no
\* other pair.
C17_GetReturnsLastSet ==
    \A m \in CmIds, w \in CmWorlds :
        cm_get_context(cm_context_info, m, w) = cm_last_set[<<m, w>>]

\* C17 witness: two cpus hold different references for the non-secure state,
\* a third holds one for the secure state only, and the other slots of those
\* cpus are still NULL.
C17_Witness ==
    /\ cm_get_context(cm_context_info, 0, NON_SECURE) = psci_ns_context(0)
    /\ cm_get_context(cm_context_info, 1, NON_SECURE) = psci_ns_context(1)
    /\ cm_get_context(cm_context_info, 256, SECURE) = psci_ns_context(0)
    /\ cm_get_context(cm_context_info, 0, SECURE) = NULL
    /\ cm_get_context(cm_context_info, 256, NON_SECURE) = NULL

CmOps == {"el3_save", "el3_restore", "el1_save", "el1_restore", "set_el3_eret",
          "set_next_eret", "init_exception_stack"}

C18_AssertFires ==
    \A c \in Cores :
        (/\ Actor(c) /\ pc[c] = "idle" /\ frame'[c].op \in CmOps
         /\ cm_context_info[platform_get_core_pos(frame'[c].target)][frame'[c].world]
                = NULL)
            => /\ pc'[c] = "panic"
               /\ UNCHANGED <<cm_context_info, cpu_context, cm_last_set>>

C18_WritesItsSnapshot ==
    \A c \in Cores :
        (Actor(c) /\ frame'[c].op \in CmOps)
            => \A r \in CtxRefs :
                   cpu_context'[r] # cpu_context[r]
                       => r = cm_context_info[platform_get_core_pos(frame'[c].target)]
                                             [frame'[c].world]

\* C18: each of the save and restore operations, cm_set_el3_eret_context,
\* cm_set_next_eret_context and cm_init_exception_stack, called for a slot that
\* holds NULL, stops in its assertion and writes no snapshot and no slot; a
\* call that writes, writes the snapshot its slot holds.
C18_NoSnapshotIsFatal == [][C18_AssertFires]_vars /\ [][C18_WritesItsSnapshot]_vars

\* C18 witness: cm_init_exception_stack has stopped in its assertion for a cpu
\* whose slot is NULL while another slot holds a snapshot, and no snapshot was
\* written.
C18_Witness ==
    \E c \in Cores :
        /\ pc[c] = "panic" /\ frame[c].op = "init_exception_stack"
        /\ cm_last_set[<<frame[c].target, frame[c].world>>] = NULL
        /\ cm_last_set[<<c, NON_SECURE>>] # NULL
        /\ \A r \in CtxRefs : cpu_context[r] = ZeroContext


\* cpu c is inside a power_on that found the target OFF and every ancestor ON
OnWithAncestorsOn(c) ==
    /\ frame[c].op = "on" /\ pc[c] \in {"write", "unlock"}
    /\ frame[c].rc = PSCI_E_SUCCESS
    /\ frame[c].prev[1] = PSCI_STATE_OFF
    /\ \A l \in 1..frame[c].end : frame[c].prev[l + 1] = PSCI_STATE_ON

C19_OnlyTargetChanges ==
    \A c \in Cores :
        (Actor(c) /\ OnWithAncestorsOn(c))
            => /\ \A n \in psci_aff_map \ {<<0, frame[c].target>>} :
                      aff_state'[n] = aff_state[n]
               /\ (pc[c] = "write" /\ frame[c].lvl = MPIDR_AFFLVL0)
                      => aff_state'[<<0, frame[c].target>>] = PSCI_STATE_ON_PENDING

C19_AncestorLocks ==
    \A c \in Cores :
        /\ (frame[c].op = "on" /\ pc[c] \in {"read", "write"})
               => \A l \in MPIDR_AFFLVL0..get_max_afflvl :
                      lock[psci_get_aff_map_node(frame[c].target, l)] = {c}
        /\ (frame[c].op = "on" /\ pc[c] = "ret")
               => \A n \in psci_aff_map : c \notin lock[n]

\* C19: a power_on that finds its target OFF and the target's ancestors ON
\* changes the state of the target's cpu node only (to ON_PENDING); it holds
\* the lock of every level up to the maximum while it checks and writes, and
\* none when it returns.
C19_OnTouchesTargetOnly == [](C19_AncestorLocks) /\ [][C19_OnlyTargetChanges]_vars

\* C19 witness: a power_on has returned SUCCESS; the target is ON_PENDING and
\* has not started, the caller and the cluster are ON.
C19_Witness ==
    \E c, t \in Cores :
        /\ pc[c] = "ret" /\ frame[c].op = "on" /\ frame[c].target = t
        /\ frame[c].rc = PSCI_E_SUCCESS
        /\ aff_state[<<0, t>>] = PSCI_STATE_ON_PENDING /\ pc[t] = "idle"
        /\ aff_state[<<0, c>>] = PSCI_STATE_ON
        /\ aff_state[<<1, 0>>] = PSCI_STATE_ON


\* C20 as stated: every call number gets a result, the unknown ones the
\* unknown-function code and the three migrate calls a not-supported or
\* no-trusted-OS answer.
C20_EveryCallAnswered ==
    \A c \in Cores :
        frame[c].op = "smc"
            => /\ pc[c] = "ret"
               /\ frame[c].fid = "UNIMPLEMENTED" => frame[c].rc = SMC_UNK
               /\ frame[c].fid \in {"PSCI_MIG_AARCH32", "PSCI_MIG_AARCH64",
                                    "PSCI_MIG_INFO_TYPE",
                                    "PSCI_MIG_INFO_UP_CPU_AARCH32",
                                    "PSCI_MIG_INFO_UP_CPU_AARCH64"}
                      => frame[c].rc \in {PSCI_E_NOT_SUPPORTED, PSCI_TOS_NOT_PRESENT}

C20_FixedAnswers ==
    \A c \in Cores :
        frame[c].op = "smc"
            => IF frame[c].fid \in {"PSCI_SYSTEM_OFF", "PSCI_SYSTEM_RESET"}
               THEN pc[c] = "panic"
               ELSE /\ pc[c] = "ret"
                    /\ frame[c].rc =
                         CASE frame[c].fid = "UNIMPLEMENTED" -> SMC_UNK
                           [] frame[c].fid \in {"PSCI_MIG_AARCH32", "PSCI_MIG_AARCH64"}
                                  -> PSCI_E_NOT_SUPPORTED
                           [] frame[c].fid = "PSCI_MIG_INFO_TYPE" -> PSCI_TOS_NOT_PRESENT
                           [] frame[c].fid \in {"PSCI_MIG_INFO_UP_CPU_AARCH32",
                                                "PSCI_MIG_INFO_UP_CPU_AARCH64"}
                                  -> PSCI_E_SUCCESS
                           [] OTHER -> psci_version

C20_NothingChanged ==
    \A c \in Cores :
        (Actor(c) /\ frame'[c].op = "smc") => UNCHANGED <<Shared, cm_last_set>>

\* C20 amended: every call number but system-off and system-reset gets a
\* fixed answer and changes no node state, lock or context: an unknown number
\* the unknown-function code, migrate NOT_SUPPORTED, migrate-info-type the
\* no-trusted-OS code, migrate-info-up-cpu the value SUCCESS; system-off and
\* system-reset stop in an assertion and answer nothing.
C20_StubAnswers == [](C20_FixedAnswers) /\ [][C20_NothingChanged]_vars

\* C20 witness: one cpu got the unknown-function code for a number the handler
\* does not know, the other the no-trusted-OS code for migrate-info-type.
C20_Witness ==
    \E c, d \in Cores :
        /\ pc[c] = "ret" /\ frame[c].op = "smc" /\ frame[c].fid = "UNIMPLEMENTED"
        /\ frame[c].rc = SMC_UNK
        /\ pc[d] = "ret" /\ frame[d].op = "smc" /\ frame[d].fid = "PSCI_MIG_INFO_TYPE"
        /\ frame[d].rc = PSCI_TOS_NOT_PRESENT

\* the levels whose off handler cpu c has run: the handler of a level writes
\* the node's state and performs the platform's power-off action of that level
OffHandlersRun(c) == IF frame[c].op = "off" THEN frame[c].done ELSE {}

\* the levels of its path whose lock cpu c is inside
LocksHeld(c) ==
    {l \in MPIDR_AFFLVL0..frame[c].end : c \in lock[PathNode(c, l)]}

\* the locks held are always the highest nlock levels of the path: taken from
\* the highest level down, given back from level 0 up
C21_LocksTopDown ==
    \A c \in Cores :
        (frame[c].op = "off" /\ InWalk(c))
            => LocksHeld(c) = {l \in MPIDR_AFFLVL0..frame[c].end :
                                   l > frame[c].end - frame[c].nlock}

\* a step of an off call that changes a node state is taken with every lock of
\* the path held
C21_AllLocksBeforeChange ==
    \A c \in Cores :
        (frame[c].op = "off" /\ Actor(c) /\ aff_state' # aff_state)
            => /\ LocksHeld(c) = MPIDR_AFFLVL0..frame[c].end
               /\ frame[c].end = get_max_afflvl
               /\ \A l \in LocksHeld(c) : lock[PathNode(c, l)] = {c}

\* the handler of a level runs after the handlers of all lower levels and
\* before those of all higher levels
C21_HandlersBottomUp ==
    \A c \in Cores :
        (frame[c].op = "off" /\ ~(OffHandlersRun(c)' \subseteq OffHandlersRun(c)))
            => \E l \in MPIDR_AFFLVL0..frame[c].end :
                  /\ OffHandlersRun(c)' = OffHandlersRun(c) \cup {l}
                  /\ OffHandlersRun(c) = {k \in MPIDR_AFFLVL0..frame[c].end : k < l}
                  /\ aff_state' = [aff_state EXCEPT ![PathNode(c, l)] =
                                       frame[c].next[l + 1]]

\* C21: within one off call the cpu takes the locks of its path from the
\* highest affinity level down to level 0 before it changes any node state,
\* and the per-level power-off handlers then run from level 0 upward: none of
\* a higher level runs before that of a lower level.
C21_OffOrder ==
    [](C21_LocksTopDown) /\ [][C21_AllLocksBeforeChange /\ C21_HandlersBottomUp]_vars

\* C21 witness: a cpu inside off has run the handlers of level 0 and level 1,
\* turning its cluster off, and still holds both locks; before, the other cpu
\* had turned itself off.
C21_Witness ==
    \E c, d \in Cores :
        /\ c # d
        /\ frame[c].op = "off" /\ pc[c] = "unlock"
        /\ OffHandlersRun(c) = {0, 1}
        /\ LocksHeld(c) = {0, 1}
        /\ frame[c].prev[2] = PSCI_STATE_ON /\ aff_state[<<1, 0>>] = PSCI_STATE_OFF
        /\ aff_state[<<0, d>>] = PSCI_STATE_OFF

\* cpu c, directing a power_on, takes the step that sets the slot of target t
\* and records the entry point in t's snapshot
DirectedWrite(c, t) ==
    /\ c # t
    /\ frame[c].op = "on" /\ frame[c].target = t
    /\ pc[c] = "write" /\ frame[c].lvl = MPIDR_AFFLVL0
    /\ Actor(c)

\* cpu t is inside code of its own that reads or writes its slot pair: the
\* finisher, or a suspend that programs its resume entry
UsesOwnSlot(t) ==
    frame[t].op \in {"finish", "suspend"} /\ pc[t] \in {"read", "write"}

C22_WriteWhileOff ==
    \A c, t \in Cores :
        DirectedWrite(c, t)
            => /\ aff_state[<<0, t>>] = PSCI_STATE_OFF
               /\ \A l \in MPIDR_AFFLVL0..frame[c].end : lock[PathNode(c, l)] = {c}
               /\ \A n \in psci_aff_map : t \notin lock[n]
               /\ \/ pc[t] = "idle"
                  \/ pc[t] = "ret" /\ frame[t].op = "off"
                                   /\ frame[t].rc = PSCI_E_SUCCESS
               /\ cm_context_info'[platform_get_core_pos(t)][NON_SECURE]
                      = psci_ns_context(platform_get_core_pos(t))
               /\ ElrOf(cm_context_info', cpu_context', t) = frame[c].entry

C22_SnapshotReady ==
    \A t \in Cores :
        (aff_state[<<0, t>>] = PSCI_STATE_ON_PENDING \/ frame[t].op = "finish")
            => /\ cm_get_context(cm_context_info, t, NON_SECURE)
                      = psci_ns_context(platform_get_core_pos(t))
               /\ ElrOf(cm_context_info, cpu_context, t) \in Entrypoints
               /\ \A c \in Cores :
                      (/\ frame[c].op = "on" /\ frame[c].target = t
                       /\ frame[c].rc = PSCI_E_SUCCESS
                       /\ pc[c] \in {"unlock", "ret"}
                       /\ aff_state[<<0, t>>] = PSCI_STATE_ON_PENDING)
                          => ElrOf(cm_context_info, cpu_context, t) = frame[c].entry

C22_NoJointAccess ==
    \A c, t \in Cores :
        (c # t /\ frame[c].op = "on" /\ frame[c].target = t /\ pc[c] = "write")
            => ~UsesOwnSlot(t)

====
